---------------------------- MODULE Spec2Model ----------------------------
(***************************************************************************)
(* A model of convert.py, the Google Keep -> Obsidian converter:           *)
(* parse_note / _rename_fields, keepnote_to_obsidian and its helpers,      *)
(* obsidiannote_to_markdown, and the driver of the __main__ block          *)
(* (iter_notes, the write loop, the attachment copy loop).                 *)
(*                                                                         *)
(* Representation.                                                         *)
(*  - A Python str is a sequence of symbols.  A symbol is one character    *)
(*    ("a", "/", ".", "\n") or a literal run of characters that the code   *)
(*    writes itself and that holds no '/' and no newline ("x-keep-color",  *)
(*    ".md", "1970-01-01T00:00:00").  User data (titles, label names,      *)
(*    bodies) is always spelled one character per symbol, so replace,      *)
(*    endswith, len and the splitting of a path at '/' act on it as the    *)
(*    Python operations do.                                                *)
(*  - A pathlib path is [root, parts]: root says whether it is absolute,   *)
(*    parts are its segments.                                              *)
(*  - A JSON object is a function from its keys to its values; an input    *)
(*    file is [json, obj] where json = FALSE stands for text json.loads    *)
(*    rejects.                                                             *)
(*  - None and the empty list are both the empty sequence: the code only   *)
(*    ever tests the optional fields for truthiness.                       *)
(***************************************************************************)
EXTENDS Integers, Sequences, FiniteSets, TLC

VARIABLES
    files,                \* the enumerated input files, in enumeration order
    args,                 \* the parsed command line
    idx,                  \* position of iter_notes in files
    pc,                   \* "iter" | "write" | "copy" | "done" | "raised"
    exc,                  \* the uncaught exception that ended the run, or ""
    note,                 \* the ObsidianNote the write loop holds
    attachments_to_copy,  \* the list iter_notes extends
    cidx,                 \* position of the copy loop in attachments_to_copy
    ops                   \* the file-system operations performed so far, in order

vars == <<files, args, idx, pc, exc, note, attachments_to_copy, cidx, ops>>

-----------------------------------------------------------------------------
(* Bounds of the model *)

\* the largest batch of input files of the batch specification
MaxFiles == 2

\* the largest number of ordinary labels on a note of the single-note specification
MaxLabels == 2

-----------------------------------------------------------------------------
(* Strings *)

NL == "\n"

Last(s) == s[Len(s)]

Front(s) == SubSeq(s, 1, Len(s) - 1)

\* s.replace(from, to) for a one-character from
Replace(s, from, to) == [i \in 1..Len(s) |-> IF s[i] = from THEN to ELSE s[i]]

\* the concatenation of a sequence of strings
RECURSIVE Concat(_)
Concat(ss) == IF ss = <<>> THEN <<>> ELSE Head(ss) \o Concat(Tail(ss))

\* sep.join(ss)
RECURSIVE StrJoin(_, _)
StrJoin(sep, ss) ==
    IF ss = <<>> THEN <<>>
    ELSE IF Len(ss) = 1 THEN Head(ss)
    ELSE Head(ss) \o sep \o StrJoin(sep, Tail(ss))

\* s.split(sep) for a one-character sep: Split("a/b", "/") = <<"a", "b">>
RECURSIVE Split(_, _)
Split(s, sep) ==
    IF \A i \in 1..Len(s) : s[i] # sep THEN <<s>>
    ELSE LET k == CHOOSE i \in 1..Len(s) :
                      s[i] = sep /\ \A j \in 1..(i - 1) : s[j] # sep
         IN <<SubSeq(s, 1, k - 1)>> \o Split(SubSeq(s, k + 1, Len(s)), sep)

StartsWith(s, p) == Len(p) <= Len(s) /\ SubSeq(s, 1, Len(p)) = p

EndsWith(s, p) == Len(p) <= Len(s) /\ SubSeq(s, Len(s) - Len(p) + 1, Len(s)) = p

-----------------------------------------------------------------------------
(* pathlib *)

\* the file extensions of the model, each one symbol
Exts == {".md", ".json", ".png", ".jpeg", ".jpg"}

\* Path(s): segments are split at '/', empty and '.' segments are dropped,
\* a leading '/' makes the path absolute
PathOf(s) ==
    [root  |-> Len(s) > 0 /\ s[1] = "/",
     parts |-> SelectSeq(Split(s, "/"), LAMBDA p : p # <<>> /\ p # <<".">>)]

\* a / b on paths: an absolute right operand replaces the left one
PathJoin(a, b) ==
    IF b.root THEN b ELSE [root |-> a.root, parts |-> a.parts \o b.parts]

\* str(p)
PathStr(p) ==
    IF p.parts = <<>> THEN (IF p.root THEN <<"/">> ELSE <<".">>)
    ELSE (IF p.root THEN <<"/">> ELSE <<>>) \o StrJoin(<<"/">>, p.parts)

\* p.parent
Parent(p) ==
    IF p.parts = <<>> THEN p ELSE [p EXCEPT !.parts = Front(p.parts)]

\* p.suffix
Suffix(p) ==
    IF p.parts # <<>> /\ Len(Last(p.parts)) > 1 /\ Last(Last(p.parts)) \in Exts
    THEN Last(Last(p.parts)) ELSE ""

\* p.with_suffix(ext), for a path that has a name
WithSuffix(p, ext) ==
    LET name == Last(p.parts)
        stem == IF Suffix(p) = "" THEN name ELSE Front(name)
    IN [p EXCEPT !.parts = Front(p.parts) \o <<stem \o <<ext>>>>]

-----------------------------------------------------------------------------
(* JSON objects and the note classes *)

\* the keys of a JSON object
Keys(d) == DOMAIN d

\* the object d without key k
DelKey(d, k) == [x \in (DOMAIN d) \ {k} |-> d[x]]

\* the object d with d[k] = v
SetKey(d, k, v) == (k :> v) @@ d

DEFAULT_NAMES ==
    << <<"textContent", "text_content">>,
       <<"listContent", "list_content">>,
       <<"isTrashed", "trashed">>,
       <<"isPinned", "pinned">>,
       <<"isArchived", "archived">>,
       <<"userEditedTimestampUsec", "mtime_us">>,
       <<"createdTimestampUsec", "ctime_us">> >>

\* None, and every other falsy value of an optional list field
None == <<>>

\* the positional fields of the dataclass Note
NoteFields == {"title", "color", "mtime_us", "ctime_us", "archived", "pinned", "trashed"}

\* the defaulted fields of ListNote and TextNote
OptionalFields == {"labels", "annotations", "attachments"}

\* the field of a note class that holds its content
ContentField(cls) == IF cls = "ListNote" THEN "list_content" ELSE "text_content"

\* the value parse_note and the driver see when no note was constructed
NoNote ==
    [cls |-> "", title |-> <<>>, color |-> "", mtime_us |-> 0, ctime_us |-> 0,
     archived |-> FALSE, pinned |-> FALSE, trashed |-> FALSE, content |-> <<>>,
     labels |-> None, annotations |-> None, attachments |-> None]

RECURSIVE _rename_fields(_, _)
_rename_fields(d, mapping) ==
    IF mapping = <<>> THEN d
    ELSE LET from_ == Head(mapping)[1]
             to    == Head(mapping)[2]
         IN _rename_fields(IF from_ \in Keys(d)
                           THEN DelKey(SetKey(d, to, d[from_]), from_)
                           ELSE d,
                           Tail(mapping))

\* cls(**n): TypeError when a positional field is missing or a keyword is unknown
NoteInit(cls, n) ==
    LET required == NoteFields \cup {ContentField(cls)}
        opt(k)   == IF k \in Keys(n) THEN n[k] ELSE None
    IN IF ~(required \subseteq Keys(n)) \/ ~(Keys(n) \subseteq required \cup OptionalFields)
       THEN [tag |-> "TypeError", n |-> NoNote]
       ELSE [tag |-> "Note",
             n   |-> [cls |-> cls, title |-> n["title"], color |-> n["color"],
                      mtime_us |-> n["mtime_us"], ctime_us |-> n["ctime_us"],
                      archived |-> n["archived"], pinned |-> n["pinned"],
                      trashed |-> n["trashed"], content |-> n[ContentField(cls)],
                      labels |-> opt("labels"), annotations |-> opt("annotations"),
                      attachments |-> opt("attachments")]]

\* parse_note(s): [tag, n] with tag "None" (returns None), "Note" (returns n)
\* or "TypeError" (raises)
parse_note(s) ==
    IF ~s.json THEN [tag |-> "None", n |-> NoNote]
    ELSE LET n1 == _rename_fields(s.obj, DEFAULT_NAMES)
             n2 == IF "labels" \in Keys(n1)
                   THEN SetKey(n1, "labels",
                               [i \in DOMAIN n1["labels"] |-> n1["labels"][i]["name"]])
                   ELSE n1
         IN IF "list_content" \in Keys(n2) THEN NoteInit("ListNote", n2)
            ELSE IF "text_content" \in Keys(n2) THEN NoteInit("TextNote", n2)
            ELSE [tag |-> "None", n |-> NoNote]

\* n.text()
NoteText(n) ==
    IF n.cls = "ListNote"
    THEN StrJoin(<<NL>>,
                 [i \in DOMAIN n.content |->
                     <<"-", " ", "[", IF n.content[i]["isChecked"] THEN "x" ELSE " ", "]", " ">>
                     \o n.content[i]["text"]])
    ELSE n.content

-----------------------------------------------------------------------------
(* The mapper: keepnote_to_obsidian and its helpers *)

title_to_slug(s) == Replace(s, "/", "_")

\* the default of truncate's max_len
TruncateLen == 10

truncate(title) ==
    IF Len(title) > TruncateLen
    THEN SubSeq(title, 1, TruncateLen) \o <<".", ".", ".">>
    ELSE title

\* datetime.fromtimestamp(ctime_us/1.0e6).strftime('%Y-%m-%dT%H:%M:%S'), as one
\* symbol, for the creation times of the model (local time is UTC)
IsoSeconds(ctime_us) ==
    IF ctime_us = 0 THEN "1970-01-01T00:00:00" ELSE "1970-01-01T00:00:01"

\* make_title(n, fmt): fmt is a sequence of symbols, "%@" and "%#" among them
make_title(n, fmt) ==
    Concat([i \in DOMAIN fmt |->
                IF fmt[i] = "%@" THEN <<IsoSeconds(n.ctime_us)>>
                ELSE IF fmt[i] = "%#" THEN truncate(NoteText(n))
                ELSE <<fmt[i]>>])

\* a value of the metadata dict, tagged with its Python type
PyStrVal(s) == [type |-> "str", str |-> s, bool |-> FALSE, list |-> <<>>]

PyBoolVal(b) == [type |-> "bool", str |-> <<>>, bool |-> b, list |-> <<>>]

PyListVal(l) == [type |-> "list", str |-> <<>>, bool |-> FALSE, list |-> l]

keepnote_metadata(n) ==
    << [k |-> "x-keep-color", v |-> PyStrVal(<<n.color>>)],
       [k |-> "x-keep-archived", v |-> PyBoolVal(n.archived)],
       [k |-> "x-keep-pinned", v |-> PyBoolVal(n.pinned)],
       [k |-> "x-keep-trashed", v |-> PyBoolVal(n.trashed)],
       [k |-> "x-keep-labels", v |-> PyListVal(n.labels)] >>

serialise_annotations(annotations) ==
    <<NL, NL, "Â§ Annotations:", NL>>
    \o Concat([i \in DOMAIN annotations |->
                  <<"-", " ">> \o annotations[i]["title"] \o <<":", " ", "[">>
                  \o annotations[i]["description"] \o <<"]", "(">>
                  \o annotations[i]["url"] \o <<")", NL>>])

\* the specs serialise_attachments does not skip
Embeddable(attachments) == SelectSeq(attachments, LAMBDA spec : "filePath" \in Keys(spec))

serialise_attachments(attachment_dir, attachments) ==
    LET good == Embeddable(attachments)
    IN <<NL>> \o StrJoin(<<NL>>,
                        [i \in DOMAIN good |->
                            <<"![[">>
                            \o PathStr(PathJoin(PathOf(attachment_dir),
                                                PathOf(good[i]["filePath"])))
                            \o <<"]]">>])

\* list(list_attachments(fnote, n, **args)): KeyError at the first spec without
\* 'filePath', whatever was yielded before it is dropped with the list
list_attachments(fnote, n, attachment_dir) ==
    IF \E i \in DOMAIN n.attachments : "filePath" \notin Keys(n.attachments[i])
    THEN [tag |-> "KeyError", pairs |-> <<>>]
    ELSE [tag |-> "ok",
          pairs |-> [i \in DOMAIN n.attachments |->
                        [src    |-> PathJoin(Parent(fnote), PathOf(n.attachments[i]["filePath"])),
                         target |-> PathJoin(PathOf(attachment_dir),
                                             PathOf(n.attachments[i]["filePath"]))]]]

\* the path keepnote_to_obsidian computes
NotePath(n, a) ==
    LET title == IF n.title = <<>> THEN make_title(n, a.untitled_format) ELSE n.title
        p0 == PathOf(title_to_slug(title) \o <<".md">>)
        p1 == IF a.labels_as_folders /\ n.labels # <<>>
              THEN PathJoin(PathOf(n.labels[1]), p0) ELSE p0
    IN IF n.archived /\ a.archive_dir # <<>> THEN PathJoin(PathOf(a.archive_dir), p1)
       ELSE IF n.trashed /\ a.trashed_dir # <<>> THEN PathJoin(PathOf(a.trashed_dir), p1)
       ELSE p1

\* the tags keepnote_to_obsidian computes
NoteTags(n, a) ==
    (IF a.labels_as_tags /\ n.labels # <<>> THEN n.labels ELSE <<>>)
    \o (IF a.tag_pinned /\ n.pinned THEN << <<"pinned">> >> ELSE <<>>)

\* the content keepnote_to_obsidian computes
NoteContent(n, a) ==
    NoteText(n)
    \o (IF a.attachments /\ n.attachments # <<>>
        THEN serialise_attachments(a.attachment_dir, n.attachments) ELSE <<>>)
    \o (IF a.annotations /\ n.annotations # <<>>
        THEN serialise_annotations(n.annotations) ELSE <<>>)

keepnote_to_obsidian(n, a) ==
    [path     |-> NotePath(n, a),
     metadata |-> keepnote_metadata(n),
     tags     |-> NoteTags(n, a),
     content  |-> NoteContent(n, a),
     ctime_us |-> n.ctime_us,
     mtime_us |-> n.mtime_us]

-----------------------------------------------------------------------------
(* The serializer: obsidiannote_to_markdown and its helpers *)

\* str(v) of a metadata value; the repr of a list of plain strings
PyStr(v) ==
    IF v.type = "str" THEN v.str
    ELSE IF v.type = "bool" THEN (IF v.bool THEN <<"True">> ELSE <<"False">>)
    ELSE <<"[">> \o StrJoin(<<",", " ">>, [i \in DOMAIN v.list |-> <<"'">> \o v.list[i] \o <<"'">>])
         \o <<"]">>

serialise_metadata(m) ==
    <<"---", NL>>
    \o StrJoin(<<NL>>, [i \in DOMAIN m |-> <<m[i].k, ":", " ">> \o PyStr(m[i].v)])
    \o <<NL, "---", NL>>

\* serialise_tags as the format description has it: one line, space-separated
serialise_tags_on_one_line(tags) ==
    StrJoin(<<" ">>, [i \in DOMAIN tags |-> <<"#">> \o tags[i]])

serialise_tags(tags) == StrJoin(<<NL>>, [i \in DOMAIN tags |-> <<"#">> \o tags[i]])

fix_trailing_newline(s) == IF ~EndsWith(s, <<NL>>) THEN s \o <<NL>> ELSE s

\* obsidiannote_to_markdown(note, **args): the path and the text whose UTF-8
\* encoding is written
obsidiannote_to_markdown(o, a) ==
    [path |-> o.path,
     md   |-> (IF a.add_metadata THEN serialise_metadata(o.metadata) \o <<NL>> ELSE <<>>)
              \o fix_trailing_newline(o.content)
              \o (IF o.tags # <<>> THEN <<NL>> \o serialise_tags(o.tags) \o <<NL>> ELSE <<>>)]

-----------------------------------------------------------------------------
(* The driver: the __main__ block *)

\* the note parse_note returns for the file iter_notes is at
CurParse == parse_note(files[idx])

\* neither continue of iter_notes is taken for note n
Included(n, a) == ~(n.archived /\ ~a.archived) /\ ~(n.trashed /\ ~a.trashed)

\* the run ends with an uncaught exception
Raise(e) ==
    /\ pc' = "raised"
    /\ exc' = e
    /\ UNCHANGED <<files, args, idx, note, attachments_to_copy, cidx, ops>>

\* iter_notes: parse_note returned None, the file is skipped
IterNone ==
    /\ pc = "iter" /\ idx <= Len(files)
    /\ CurParse.tag = "None"
    /\ idx' = idx + 1
    /\ UNCHANGED <<files, args, pc, exc, note, attachments_to_copy, cidx, ops>>

\* iter_notes: the note class constructor raised inside parse_note
IterParseRaises ==
    /\ pc = "iter" /\ idx <= Len(files)
    /\ CurParse.tag = "TypeError"
    /\ Raise("TypeError")

\* iter_notes: an archived or trashed note is skipped
IterFiltered ==
    /\ pc = "iter" /\ idx <= Len(files)
    /\ CurParse.tag = "Note"
    /\ ~Included(CurParse.n, args)
    /\ idx' = idx + 1
    /\ UNCHANGED <<files, args, pc, exc, note, attachments_to_copy, cidx, ops>>

\* iter_notes: list_attachments raised while the copy instructions were collected
IterCollectRaises ==
    /\ pc = "iter" /\ idx <= Len(files)
    /\ CurParse.tag = "Note"
    /\ Included(CurParse.n, args)
    /\ args.attachments /\ CurParse.n.attachments # <<>>
    /\ list_attachments(files[idx].fname, CurParse.n, args.attachment_dir).tag = "KeyError"
    /\ Raise("KeyError")

\* iter_notes: the copy instructions of the note are collected and its
\* ObsidianNote is yielded to the write loop
IterYield ==
    /\ pc = "iter" /\ idx <= Len(files)
    /\ CurParse.tag = "Note"
    /\ Included(CurParse.n, args)
    /\ LET n == CurParse.n
           collected == list_attachments(files[idx].fname, n, args.attachment_dir)
       IN /\ IF args.attachments /\ n.attachments # <<>>
             THEN /\ collected.tag = "ok"
                  /\ attachments_to_copy' = attachments_to_copy \o collected.pairs
             ELSE attachments_to_copy' = attachments_to_copy
          /\ note' = keepnote_to_obsidian(n, args)
    /\ pc' = "write"
    /\ UNCHANGED <<files, args, idx, exc, cidx, ops>>

\* iter_notes is exhausted: the write loop ends and the copy loop starts
IterExhausted ==
    /\ pc = "iter" /\ idx > Len(files)
    /\ pc' = "copy"
    /\ UNCHANGED <<files, args, idx, exc, note, attachments_to_copy, cidx, ops>>

\* the write of the held note: a "write" operation.  input is the position of
\* the file the note was read from; utime is the mtime set, -1 when none is
WriteOp ==
    LET out == obsidiannote_to_markdown(note, args)
    IN [op |-> "write", input |-> idx,
        src |-> files[idx].fname,
        dest |-> PathJoin(PathOf(args.destdir), out.path),
        rel |-> out.path,
        data |-> out.md,
        utime |-> IF args.mtime THEN 1000 * note.mtime_us ELSE -1]

\* the copy of one collected attachment: a "copy" operation
CopyOp(pair) ==
    [op |-> "copy", input |-> 0,
     src |-> IF Suffix(pair.src) = ".jpeg" THEN WithSuffix(pair.src, ".jpg") ELSE pair.src,
     dest |-> PathJoin(PathOf(args.destdir), pair.target),
     rel |-> pair.target,
     data |-> <<>>,
     utime |-> -1]

\* a write loop that copies the attachments collected so far after each note,
\* instead of leaving them to the copy loop
WriteNoteCopyingAtOnce ==
    /\ pc = "write"
    /\ ops' = Append(ops, WriteOp)
              \o [i \in 1..(Len(attachments_to_copy) - cidx + 1) |->
                     CopyOp(attachments_to_copy[cidx + i - 1])]
    /\ cidx' = Len(attachments_to_copy) + 1
    /\ idx' = idx + 1
    /\ pc' = "iter"
    /\ UNCHANGED <<files, args, exc, note, attachments_to_copy>>

\* the body of the write loop, then iter_notes resumes at the next file
WriteNote ==
    /\ pc = "write"
    /\ ops' = Append(ops, WriteOp)
    /\ idx' = idx + 1
    /\ pc' = "iter"
    /\ UNCHANGED <<files, args, exc, note, attachments_to_copy, cidx>>

\* one pass of the copy loop
CopyAttachment ==
    /\ pc = "copy" /\ cidx <= Len(attachments_to_copy)
    /\ ops' = Append(ops, CopyOp(attachments_to_copy[cidx]))
    /\ cidx' = cidx + 1
    /\ UNCHANGED <<files, args, idx, pc, exc, note, attachments_to_copy>>

\* the copy loop is over, the program ends
Finish ==
    /\ pc = "copy" /\ cidx > Len(attachments_to_copy)
    /\ pc' = "done"
    /\ UNCHANGED <<files, args, idx, exc, note, attachments_to_copy, cidx, ops>>

iter_notes ==
    \/ IterNone
    \/ IterParseRaises
    \/ IterFiltered
    \/ IterCollectRaises
    \/ IterYield
    \/ IterExhausted

Next ==
    \/ iter_notes
    \/ WriteNote
    \/ CopyAttachment
    \/ Finish

-----------------------------------------------------------------------------
(* Inputs *)

\* argparse's defaults
DefaultArgs ==
    [destdir |-> <<"o", "u", "t">>,
     annotations |-> FALSE,
     attachments |-> TRUE,
     attachment_dir |-> <<"Attachments">>,
     archived |-> FALSE,
     archive_dir |-> <<"Archived">>,
     trashed |-> FALSE,
     trashed_dir |-> <<"Trashed">>,
     add_metadata |-> TRUE,
     labels_as_tags |-> FALSE,
     labels_as_folders |-> TRUE,
     tag_pinned |-> TRUE,
     mtime |-> TRUE,
     untitled_format |-> <<"%@", " ", "%#">>]

\* a well-formed exported note with the given content field
KeepObj(title, key, content, archived, trashed, pinned) ==
    SetKey([title |-> title, color |-> "DEFAULT", isArchived |-> archived,
            isTrashed |-> trashed, isPinned |-> pinned,
            userEditedTimestampUsec |-> 2000000, createdTimestampUsec |-> 0],
           key, content)

TextObj(title, body) == KeepObj(title, "textContent", body, FALSE, FALSE, FALSE)

Items == << [text |-> <<"m", "i", "l", "k">>, isChecked |-> TRUE],
            [text |-> <<"e", "g", "g", "s">>, isChecked |-> FALSE] >>

\* the name of an attachment file, stem and extension
Att(stem, ext) == [filePath |-> <<stem, ext>>, mimetype |-> "image"]

\* the labels field of an export, from label names
LabelObjs(names) == [i \in DOMAIN names |-> [name |-> names[i]]]

\* a key of newer exports that no note class knows
UnknownKey == "sharees"

\* the input documents of the batch specification
Docs ==
    { [json |-> TRUE, obj |-> TextObj(<<"a">>, <<"h", "i">>)],
      [json |-> TRUE, obj |-> SetKey(TextObj(<<"a">>, <<"y", "o", NL>>), "attachments",
                                     <<Att("p", ".png")>>)],
      [json |-> TRUE, obj |-> KeepObj(<<"b">>, "textContent", <<"h", "i">>, TRUE, FALSE, FALSE)],
      [json |-> TRUE, obj |-> KeepObj(<<"c">>, "textContent", <<"h", "i">>, FALSE, TRUE, TRUE)],
      [json |-> TRUE, obj |-> DelKey(TextObj(<<"d">>, <<"h", "i">>), "color")],
      [json |-> TRUE, obj |-> SetKey(TextObj(<<"e">>, <<"h", "i">>), UnknownKey, <<>>)],
      [json |-> TRUE, obj |-> SetKey(TextObj(<<"f">>, <<"h", "i">>), "attachments",
                                     <<Att("q", ".jpeg"), [mimetype |-> "image"]>>)],
      [json |-> TRUE, obj |-> SetKey(SetKey(KeepObj(<<>>, "listContent", Items, FALSE, FALSE, TRUE),
                                            "labels", LabelObjs(<< <<"L">> >>)),
                                     "attachments", <<Att("q", ".jpeg")>>)],
      [json |-> TRUE, obj |-> SetKey(TextObj(<<"g">>, <<"h", "i">>), "annotations",
                                     << [title |-> <<"t">>, description |-> <<"d">>,
                                         url |-> <<"u">>] >>)],
      [json |-> TRUE, obj |-> [title |-> <<"h">>, color |-> "DEFAULT"]],
      [json |-> FALSE, obj |-> <<>>] }

\* the command lines of the batch specification
Configs ==
    { [DefaultArgs EXCEPT !.archived = f[1], !.trashed = f[2], !.attachments = f[3],
                          !.annotations = f[4], !.mtime = f[5]] :
        f \in BOOLEAN \X BOOLEAN \X BOOLEAN \X BOOLEAN \X BOOLEAN }

\* every sequence over S of length at most n
RECURSIVE SeqsUpTo(_, _)
SeqsUpTo(S, n) ==
    IF n = 0 THEN {<<>>}
    ELSE LET shorter == SeqsUpTo(S, n - 1)
         IN shorter \cup {Append(s, x) : s \in shorter, x \in S}

\* the titles of the single-note specification: none, with a slash, two dots
\* (Docs has the plain ones)
Titles == {<<>>, <<"a", "/", "b">>, <<".", ".">>}

\* its label lists: ordinary names, and a first label that is a path of its own
LabelLists ==
    SeqsUpTo({<<"L">>, <<"M">>}, MaxLabels)
    \cup {<< <<"/", "x">> >>, << <<".", ".">> >>, << <<"L", "/", "M">> >>}

\* the input documents of the single-note specification
NoteDocs ==
    Docs \cup
    { [json |-> TRUE,
       obj |-> LET o == KeepObj(t, c[1], c[2], f[1], f[2], f[3])
               IN IF l = <<>> THEN o ELSE SetKey(o, "labels", LabelObjs(l))] :
        t \in Titles, l \in LabelLists, f \in BOOLEAN \X BOOLEAN \X BOOLEAN,
        c \in {<<"textContent", <<"h", "i">>>>, <<"listContent", Items>>} }

\* the command lines of the single-note specification
NoteConfigs ==
    { [DefaultArgs EXCEPT !.archived = f[1], !.trashed = f[1],
                          !.labels_as_folders = f[2], !.labels_as_tags = f[3],
                          !.tag_pinned = f[4], !.add_metadata = f[5],
                          !.archive_dir = d[1], !.trashed_dir = d[2]] :
        f \in BOOLEAN \X BOOLEAN \X BOOLEAN \X BOOLEAN \X BOOLEAN,
        d \in {<<"Archived">>, <<>>} \X {<<"Trashed">>, <<>>} }

\* the name of the i-th enumerated file
FileDigits == <<"1", "2", "3", "4", "5", "6", "7", "8", "9">>

FileName(i) == PathOf(<<"K", "e", "e", "p", "/", "n", FileDigits[i], ".json">>)

\* the enumerated files holding the documents ds
Enumerate(ds) == [i \in DOMAIN ds |-> [fname |-> FileName(i), json |-> ds[i].json, obj |-> ds[i].obj]]

\* the write loop's variable before the first note is yielded
NoObsidianNote ==
    [path |-> PathOf(<<>>), metadata |-> <<>>, tags |-> <<>>, content |-> <<>>,
     ctime_us |-> 0, mtime_us |-> 0]

\* the state at the start of the note loop
Start(fs, a) ==
    /\ files = fs
    /\ args = a
    /\ idx = 1
    /\ pc = "iter"
    /\ exc = ""
    /\ note = NoObsidianNote
    /\ attachments_to_copy = <<>>
    /\ cidx = 1
    /\ ops = <<>>

\* a batch of at most MaxFiles documents
Init == \E ds \in SeqsUpTo(Docs, MaxFiles), a \in Configs : Start(Enumerate(ds), a)

\* a single document, from the wider sets
InitNote == \E d \in NoteDocs, a \in NoteConfigs : Start(Enumerate(<<d>>), a)

Spec == Init /\ [][Next]_vars

SpecNote == InitNote /\ [][Next]_vars

-----------------------------------------------------------------------------
(* Vocabulary of the properties *)

\* the positions in ops of the note files written and of the attachments copied
Writes == {k \in DOMAIN ops : ops[k].op = "write"}

Copies == {k \in DOMAIN ops : ops[k].op = "copy"}

\* the program has ended, normally or with an uncaught exception
Ended == pc \in {"done", "raised"}

\* the files iter_notes has read so far
Reached == {i \in DOMAIN files : i <= idx}

\* a note file was written for the i-th input file
WrittenFrom(i) == \E k \in Writes : ops[k].input = i

\* the i-th input file parses into a note
IsNote(i) == parse_note(files[i]).tag = "Note"

NoteAt(i) == parse_note(files[i]).n

\* the attachment entries of a JSON object
AttachmentsOf(obj) == IF "attachments" \in Keys(obj) THEN obj["attachments"] ELSE <<>>

\* some attachment entry of the object lacks its filePath
HasBadAttachment(obj) ==
    \E x \in DOMAIN AttachmentsOf(obj) : "filePath" \notin Keys(AttachmentsOf(obj)[x])

\* the keys of an input document that are renamed or are fields of a note
KnownKeys ==
    {DEFAULT_NAMES[x][1] : x \in DOMAIN DEFAULT_NAMES}
    \cup {DEFAULT_NAMES[x][2] : x \in DOMAIN DEFAULT_NAMES}
    \cup NoteFields \cup OptionalFields

\* the mandatory common attributes, under their names in the export
MandatoryKeys ==
    {"title", "color", "isArchived", "isPinned", "isTrashed",
     "userEditedTimestampUsec", "createdTimestampUsec"}

HasContent(obj) == "textContent" \in Keys(obj) \/ "listContent" \in Keys(obj)

\* a document with a body or items field that lacks a mandatory attribute
MissingMandatory(f) == f.json /\ HasContent(f.obj) /\ ~(MandatoryKeys \subseteq Keys(f.obj))

\* a document that carries a key no note field corresponds to
HasUnknownKey(f) == f.json /\ HasContent(f.obj) /\ ~(Keys(f.obj) \subseteq KnownKeys)

\* the i-th file is a complete note of known keys and well-formed attachments
\* that passes the archived/trashed filter
Convertible(i) ==
    /\ IsNote(i)
    /\ Included(NoteAt(i), args)
    /\ ~HasBadAttachment(files[i].obj)

\* no file other than the i-th is malformed in any way
OnlyDefect(i) ==
    \A j \in DOMAIN files \ {i} :
        /\ ~MissingMandatory(files[j])
        /\ ~HasUnknownKey(files[j])
        /\ ~HasBadAttachment(files[j].obj)

\* what the mapper and the serializer produce for document f
Output(f) == obsidiannote_to_markdown(keepnote_to_obsidian(parse_note(f).n, args), args)

\* a path that leaves the directory it is joined to
Escapes(p) == p.root \/ \E x \in DOMAIN p.parts : p.parts[x] = <<".", ".">>

-----------------------------------------------------------------------------
(* C1 *)

\* C1: every note file is written at a relative path that is not absolute and
\* has no '..' segment, so it stays under destdir
C1_PathNeverEscapes ==
    \A k \in Writes :
        /\ ~Escapes(ops[k].rel)
        /\ ops[k].dest = [root |-> FALSE, parts |-> PathOf(args.destdir).parts \o ops[k].rel.parts]

-----------------------------------------------------------------------------
(* C2 *)

\* C2: when the run has ended, every successfully parsed note was written if
\* and only if it passes the archived filter and the trashed filter
C2_WrittenIffIncluded ==
    Ended =>
        \A i \in Reached :
            IsNote(i) => (WrittenFrom(i) <=> Included(NoteAt(i), args))

\* the half of C2 that the code keeps: a note that is written passes both
\* filters, so with both flags off no archived or trashed note is written
OnlyIncludedNotesWritten ==
    \A k \in Writes :
        /\ IsNote(ops[k].input)
        /\ NoteAt(ops[k].input).archived => args.archived
        /\ NoteAt(ops[k].input).trashed => args.trashed

-----------------------------------------------------------------------------
(* C3 *)

\* C3: when the run has ended, a document that lacks a mandatory attribute
\* was skipped and every other convertible note of the batch was written
C3_MissingAttributeSkipsOneNote ==
    Ended =>
        \A i \in DOMAIN files :
            (MissingMandatory(files[i]) /\ OnlyDefect(i)) =>
                /\ ~WrittenFrom(i)
                /\ \A j \in DOMAIN files \ {i} : Convertible(j) => WrittenFrom(j)

-----------------------------------------------------------------------------
(* C4 *)

\* the document without its unknown keys
WithoutUnknownKeys(f) == [f EXCEPT !.obj = [k \in Keys(f.obj) \cap KnownKeys |-> f.obj[k]]]

\* C4: when the run has ended, a document with an unknown key was written to
\* the path and with the text of the same document without that key
C4_UnknownKeyIgnored ==
    Ended =>
        \A i \in DOMAIN files :
            LET clean == WithoutUnknownKeys(files[i])
            IN (/\ HasUnknownKey(files[i]) /\ OnlyDefect(i)
                /\ parse_note(clean).tag = "Note"
                /\ Included(parse_note(clean).n, args)) =>
                   \E k \in Writes :
                       /\ ops[k].input = i
                       /\ ops[k].rel = Output(clean).path
                       /\ ops[k].data = Output(clean).md

-----------------------------------------------------------------------------
(* C5 *)

\* the lines of a text that embed an attachment, as the embedded paths
Embeds(md) ==
    LET lines == Split(md, NL)
    IN {SubSeq(lines[x], 2, Len(lines[x]) - 1) :
          x \in {y \in DOMAIN lines : /\ Len(lines[y]) >= 2
                                      /\ lines[y][1] = "![["
                                      /\ Last(lines[y]) = "]]"}}

\* the embed paths of the attachment entries of obj that have a filePath
WellFormedEmbeds(obj) ==
    {PathStr(PathJoin(PathOf(args.attachment_dir), PathOf(AttachmentsOf(obj)[x]["filePath"]))) :
        x \in {y \in DOMAIN AttachmentsOf(obj) : "filePath" \in Keys(AttachmentsOf(obj)[y])}}

\* C5: with attachments enabled, when the run has ended, a note with an
\* attachment entry without filePath was written with the embeds of its other
\* entries only, and every other convertible note of the batch was written
C5_BadAttachmentSkipped ==
    (Ended /\ args.attachments) =>
        \A i \in DOMAIN files :
            (/\ IsNote(i) /\ Included(NoteAt(i), args)
             /\ HasBadAttachment(files[i].obj) /\ OnlyDefect(i)) =>
                /\ \E k \in Writes :
                       /\ ops[k].input = i
                       /\ Embeds(ops[k].data) = WellFormedEmbeds(files[i].obj)
                /\ \A j \in DOMAIN files \ {i} : Convertible(j) => WrittenFrom(j)

-----------------------------------------------------------------------------
(* C6 *)

\* C6: no attachment is copied before the last note file is written: every
\* copy comes after every write, and only once iter_notes is exhausted
C6_CopiesAfterAllWrites ==
    /\ \A c \in Copies : \A w \in Writes : w < c
    /\ Copies # {} => idx > Len(files)

\* C6 witness: an attachment collected for the first of two written notes is
\* copied after the second note was written
C6_Witness ==
    /\ pc = "done"
    /\ Len(ops) >= 3
    /\ ops[1].op = "write" /\ ops[1].input = 1
    /\ AttachmentsOf(files[1].obj) # <<>>
    /\ ops[2].op = "write" /\ ops[2].input = 2
    /\ ops[3].op = "copy"

-----------------------------------------------------------------------------
(* C7 *)

\* C7: an archived and trashed note, with both subfolders configured, is
\* written under the archive subfolder as its outermost segment and not under
\* the trashed subfolder
C7_ArchivedWinsOutermost ==
    \A k \in Writes :
        LET n == NoteAt(ops[k].input)
        IN (/\ n.archived /\ n.trashed
            /\ args.archive_dir # <<>> /\ args.trashed_dir # <<>>) =>
               /\ ~ops[k].rel.root
               /\ ops[k].rel.parts[1] = args.archive_dir
               /\ ops[k].rel.parts[1] # args.trashed_dir

-----------------------------------------------------------------------------
(* C8 *)

\* the ObsidianNote the k-th operation, a write, serialized
Written(k) == keepnote_to_obsidian(NoteAt(ops[k].input), args)

\* the body of a target document as the serializer emits it
BodyText(o) == IF EndsWith(o.content, <<NL>>) THEN o.content ELSE o.content \o <<NL>>

\* C8 as stated: a written file of a note with tags ends with the body, a
\* blank line, and all the tags on one line, '#'-prefixed, space-separated
C8_TagsOnOneLine ==
    \A k \in Writes :
        LET o      == Written(k)
            hashed == [x \in DOMAIN o.tags |-> <<"#">> \o o.tags[x]]
        IN o.tags # <<>> =>
              EndsWith(ops[k].data, BodyText(o) \o <<NL>> \o StrJoin(<<" ">>, hashed) \o <<NL>>)

\* C8 as amended: a written file of a note with tags ends with the body, a
\* blank line, and one line per tag, in tag-list order, each '#' and the tag
C8_TagsOnePerLine ==
    \A k \in Writes :
        LET o == Written(k)
        IN o.tags # <<>> =>
              EndsWith(ops[k].data,
                       BodyText(o) \o <<NL>>
                       \o Concat([x \in DOMAIN o.tags |-> <<"#">> \o o.tags[x] \o <<NL>>]))

\* C8 witness: a file written for a note with two labels as tags and the
\* pinned tag
C8_Witness ==
    \E k \in Writes :
        /\ Len(Written(k).tags) >= 3
        /\ Written(k).tags[1] # Written(k).tags[2]

-----------------------------------------------------------------------------
(* C9 *)

\* C9: no two writes of a run go to the same destination file
C9_NoPathWrittenTwice ==
    \A j, k \in Writes : j # k => ops[j].dest # ops[k].dest

-----------------------------------------------------------------------------
(* C10 *)

\* the text each destination file holds: that of the last write to it
FinalFiles ==
    {ops[k].data : k \in {w \in Writes : \A v \in Writes : ops[v].dest = ops[w].dest => v <= w}}

\* the paths embedded in the note files as they are when the run is over
EmbeddedPaths == UNION {Embeds(md) : md \in FinalFiles}

\* the destination-relative paths the copy phase wrote
CopiedPaths == {PathStr(ops[k].rel) : k \in Copies}

\* C10: after a complete run over attachment entries that all have a
\* filePath, the paths copied are the paths embedded in the note files; there
\* are none with attachments disabled
C10_EmbedsAreCopies ==
    (pc = "done" /\ \A i \in DOMAIN files : ~HasBadAttachment(files[i].obj)) =>
        /\ CopiedPaths = EmbeddedPaths
        /\ ~args.attachments => CopiedPaths = {}

\* what the code keeps of C10: the paths copied are the paths embedded in the
\* texts written during the run, overwritten or not
CopiesAreEmbedsWritten ==
    pc = "done" => CopiedPaths = UNION {Embeds(ops[k].data) : k \in Writes}

=============================================================================
